---- MODULE Spec2Model ----
(***************************************************************************)
(* X10mqtt gateway (x10mqtt.py): a bridge between an MQTT broker and the   *)
(* X10 bus driven through the 'heyu' command.                              *)
(*                                                                         *)
(* Two threads run: the main thread reads the lines of 'heyu monitor' and  *)
(* pairs address lines with function lines; the paho loop thread (started  *)
(* by client.loop_start()) runs the on_connect and on_message callbacks,   *)
(* one at a time.  Both call client.publish on the same client.            *)
(*                                                                         *)
(* Text is modelled as TLA+ strings handled character by character, so     *)
(* that upper(), lower(), split() and the regular expressions are computed *)
(* the way Python computes them on the inputs of the model.                *)
(*                                                                         *)
(* Each step records its inputs in ev and, in io, the calls it made on the *)
(* MQTT client and on subprocess, in order; retained is what the broker    *)
(* keeps of the retained publishes.                                        *)
(*                                                                         *)
(*   Spec          both threads, interleaved                               *)
(*   SpecCommands  the loop thread alone, with more inbound messages       *)
(*   SpecMonitor   the main thread alone, with the history of its lines    *)
(*   SpecFlows     both threads, with the history of the monitor lines     *)
(*   SpecLive      both threads, every heyu run returning in the end       *)
(*   SpecSerial    the loop thread alone, with the history of its steps    *)
(*   SpecBus       both threads, with the X10 bus that heyu acts on and    *)
(*                 that 'heyu monitor' reports                             *)
(***************************************************************************)
EXTENDS Integers, Sequences, FiniteSets, TLC

(***************************************************************************)
(* Bounds of the model                                                     *)
(***************************************************************************)
MaxMsgs  == 2      \* inbound MQTT messages handled in one run
MaxLines == 2      \* lines read from 'heyu monitor' in one run
MaxHist  == 4      \* lines read in one run of the monitor loop alone
MaxConns == 2      \* on_connect callbacks (first connect and reconnects)
MaxRemote == 2     \* functions applied on the bus by remote controls

(***************************************************************************)
(* Python str helpers                                                      *)
(***************************************************************************)
Ch(s, i) == SubSeq(s, i, i)

Lowers == "abcdefghijklmnopqrstuvwxyz"
Uppers == "ABCDEFGHIJKLMNOPQRSTUVWXYZ"
Digits == "0123456789"

InStr(c, s) == \E i \in 1..Len(s) : Ch(s, i) = c

PosIn(c, s) == CHOOSE i \in 1..Len(s) : Ch(s, i) = c

CharsOf(s) == {Ch(s, i) : i \in 1..Len(s)}

\* str.upper() and str.lower() on one ASCII character, as tables
ToUpper == [c \in CharsOf(Lowers) |-> Ch(Uppers, PosIn(c, Lowers))]
ToLower == [c \in CharsOf(Uppers) |-> Ch(Lowers, PosIn(c, Uppers))]

UpperCh(c) == IF c \in DOMAIN ToUpper THEN ToUpper[c] ELSE c

LowerCh(c) == IF c \in DOMAIN ToLower THEN ToLower[c] ELSE c

RECURSIVE Upper(_)
Upper(s) == IF s = "" THEN "" ELSE UpperCh(Ch(s, 1)) \o Upper(SubSeq(s, 2, Len(s)))

RECURSIVE Lower(_)
Lower(s) == IF s = "" THEN "" ELSE LowerCh(Ch(s, 1)) \o Lower(SubSeq(s, 2, Len(s)))

\* str(n) for a non-negative integer
RECURSIVE Str(_)
Str(n) == IF n < 10 THEN Ch(Digits, n + 1)
          ELSE Str(n \div 10) \o Ch(Digits, (n % 10) + 1)

\* s[i:i+len(w)] == w
At(s, i, w) == i >= 1 /\ i + Len(w) - 1 <= Len(s) /\ SubSeq(s, i, i + Len(w) - 1) = w

\* the last element of s.split("/")
LastSegment(s) ==
  LET slashes == {i \in 1..Len(s) : Ch(s, i) = "/"}
      from    == IF slashes = {} THEN 1
                 ELSE (CHOOSE i \in slashes : \A j \in slashes : j <= i) + 1
  IN  SubSeq(s, from, Len(s))

DigitChars == CharsOf(Digits)

HouseLetters == CharsOf("ABCDEFGHIJKLMNOP")

IsDigit(c) == c \in DigitChars

IsHouseLetter(c) == c \in HouseLetters

\* the longest run of digits of s that starts at position i (empty if none)
RECURSIVE DigitRun(_, _)
DigitRun(s, i) == IF i <= Len(s) /\ IsDigit(Ch(s, i))
                  THEN Ch(s, i) \o DigitRun(s, i + 1)
                  ELSE ""

(***************************************************************************)
(* Configuration (module level of the script)                              *)
(***************************************************************************)
cmdtopic       == "x10/cmd"
stattopic      == "x10/stat"
discoverytopic == "homeassistant"
MaxUnit        == 16

RECURSIVE HouseFilter(_)
HouseFilter(s) == IF s = "" THEN <<>>
                  ELSE (IF IsHouseLetter(Ch(s, 1)) THEN <<Ch(s, 1)>> ELSE <<>>)
                       \o HouseFilter(SubSeq(s, 2, Len(s)))

\* discoveryhouses = [h for h in DISCOVERY_HOUSECODES.upper() if h in "A".."P"]
ParseHouses(env) == HouseFilter(Upper(env))

(***************************************************************************)
(* Regular expressions                                                     *)
(***************************************************************************)
\* the language [A-P][0-9]+
HouseCodeGrammar(s) ==
  /\ Len(s) >= 2
  /\ IsHouseLetter(Ch(s, 1))
  /\ \A i \in 2..Len(s) : IsDigit(Ch(s, i))

\* re.compile("^[A-P][0-9]+$").match(hc): in Python '$' matches at the end of
\* the string and also just before a newline that ends the string.
hcpattern(hc) ==
  \/ HouseCodeGrammar(hc)
  \/ /\ Len(hc) >= 1
     /\ Ch(hc, Len(hc)) = "\n"
     /\ HouseCodeGrammar(SubSeq(hc, 1, Len(hc) - 1))

MonitorPrefixes == {"rcvi", "rcvt", "sndc", "snds", "sndm", "sndt"}

\* positions where (?:rcvi|rcvt|sndc|snds|sndm|sndt) followed by word can start
Starts(line, word) ==
  {i \in 1..Len(line) : \E p \in MonitorPrefixes : At(line, i, p \o word)}

Largest(S) == CHOOSE j \in S : \A k \in S : k <= j

NoMatch == [hit |-> FALSE, group |-> ""]

\* rercviaddr.search(line):
\*   (?:rcvi|...|sndt) addr unit.+hu ([A-P][0-9]+)
\* '.+' is greedy, so group 1 is taken at the last "hu <letter><digit>" that
\* leaves at least one character after "addr unit"; the digits are greedy too.
rercviaddr(line) ==
  LET word == " addr unit"
      J    == {j \in 1..Len(line) :
                 /\ \E i \in Starts(line, word) : j >= i + 4 + Len(word) + 1
                 /\ At(line, j, "hu ")
                 /\ j + 4 <= Len(line)
                 /\ IsHouseLetter(Ch(line, j + 3))
                 /\ IsDigit(Ch(line, j + 4))}
  IN  IF J = {} THEN NoMatch
      ELSE [hit   |-> TRUE,
            group |-> Ch(line, Largest(J) + 3) \o DigitRun(line, Largest(J) + 4)]

\* rercvifunc.search(line):
\*   (?:rcvi|...|sndt) func.*(On|Off) :
\* '.*' is greedy, so group 1 is the last "On :" or "Off :" after "func".
rercvifunc(line) ==
  LET word == " func"
      J    == {j \in 1..Len(line) :
                 /\ \E i \in Starts(line, word) : j >= i + 4 + Len(word)
                 /\ (At(line, j, "On :") \/ At(line, j, "Off :"))}
  IN  IF J = {} THEN NoMatch
      ELSE [hit   |-> TRUE,
            group |-> IF At(line, Largest(J), "On :") THEN "On" ELSE "Off"]

(***************************************************************************)
(* Inputs of the model                                                     *)
(***************************************************************************)
\* values of DISCOVERY_HOUSECODES
HouseEnvs == {"", "a,B", "xAA"}

\* topics of inbound messages delivered under the subscription cmdtopic/+
Topics == {"x10/cmd/A1", "x10/cmd/b12", "x10/cmd/Q1"}

Payloads == {"ON", "Off", "toggle"}

\* more of them, for the loop thread alone
WideTopics == Topics \cup {"x10/cmd/P16", "x10/cmd/A", "x10/cmd/A1x",
                           "x10/cmd/1A", "x10/cmd/", "x10/cmd/A1\n"}

WidePayloads == Payloads \cup {"OFF", "on", "OFF ", ""}

\* lines of 'heyu monitor'
Lines == {"rcvi addr unit 1 : hu A1 (lamp)\n",
          "sndc addr unit 12 : hu B12\n",
          "rcvi func On : hc A\n",
          "sndc func Off : hc B\n",
          "rcvi func Dim : hc A dim %22\n",
          "rcvi addr unit 12 : hu B12 (rcvi func On :)\n"}

\* exit codes of 'heyu <action> <housecode>' and of 'heyu monitor'
ExitCodes == {0, 1}

\* result codes handed to on_connect (0: accepted, 5: not authorised)
ConnectCodes == {0, 5}

\* the devices on the bus
Devices == {"A1", "B12"}

\* the two lines by which 'heyu monitor' reports that function C was applied
\* to device d: sent by heyu itself (sndc) or received from the bus (rcvi)
AddressLineOf(prefix, d) ==
  prefix \o " addr unit " \o DigitRun(d, 2) \o " : hu " \o d \o "\n"

FunctionLineOf(prefix, d, C) ==
  prefix \o " func " \o (IF C = "ON" THEN "On" ELSE "Off") \o " : hc "
         \o Ch(d, 1) \o "\n"

ReportOf(prefix, d, C) ==
  <<AddressLineOf(prefix, d), FunctionLineOf(prefix, d, C)>>

BusLines ==
  UNION {{ReportOf(prefix, d, C)[1], ReportOf(prefix, d, C)[2]} :
           prefix \in {"sndc", "rcvi"}, d \in Devices, C \in {"ON", "OFF"}}

\* commands for the devices on the bus
BusTopics == {"x10/cmd/A1", "x10/cmd/b12"}

BusPayloads == {"ON", "OFF"}

(***************************************************************************)
(* State                                                                   *)
(***************************************************************************)
VARIABLES
  discoveryhouses,  \* list of house letters to announce
  cm17,             \* whether a CM17A is in use
  rcvihc,           \* the house code stored by rcviaddr ("" when none)
  mainpc,           \* main thread: "connect", "loop", "exited" (exit(1)),
                    \*   "done" (script ran off its end), "raised" (exception)
  msgpc,            \* loop thread: "idle", or "run" inside subprocess.run
  cur,              \* the message on_message is handling and the arguments
                    \*   of its execute call, while that call is in progress
  retained,         \* the broker's retained message of each topic
  nmsgs, nlines, nconns,  \* how many messages, lines, connects were handled
  ev,               \* the last step and its inputs
  io,               \* the calls the last step made on the client and on
                    \*   subprocess, in order
  hist,             \* the history that a specification keeps: the
                    \*   monitor lines read, or the steps of the loop
                    \*   thread, each with the calls it made
  bus               \* outside the program: the X10 bus, and the lines that
                    \*   'heyu monitor' has written and the loop has not read

vars == <<discoveryhouses, cm17, rcvihc, mainpc, msgpc, cur, retained,
          nmsgs, nlines, nconns, ev, io, hist, bus>>

NoCmd == [topic |-> "", payload |-> "", cmd |-> "", housecode |-> ""]

\* ret is what the handler returned (-1 when it is None)
Event(op, topic, payload, line, rc, c, ret) ==
  [op |-> op, topic |-> topic, payload |-> payload, line |-> line, rc |-> rc,
   cmd |-> c.cmd, housecode |-> c.housecode, ret |-> ret]

\* client.subscribe(filter)
Subscribe(filter) ==
  [call |-> "subscribe", topic |-> filter, payload |-> "", retain |-> FALSE,
   args |-> <<>>]

\* client.publish(topic, payload, retain=True)
Publish(topic, payload) ==
  [call |-> "publish", topic |-> topic, payload |-> payload, retain |-> TRUE,
   args |-> <<>>]

\* subprocess.run(args)
Run(args) ==
  [call |-> "run", topic |-> "", payload |-> "", retain |-> FALSE, args |-> args]

\* the broker keeps the last retained publish of each topic
Put(store, c) ==
  IF c.call = "publish" /\ c.retain
  THEN [t \in DOMAIN store \cup {c.topic} |->
          IF t = c.topic THEN c.payload ELSE store[t]]
  ELSE store

RECURSIVE Retain(_, _)
Retain(store, calls) ==
  IF calls = <<>> THEN store ELSE Retain(Put(store, Head(calls)), Tail(calls))

\* the bus before anything happened on it: state is the last function
\* applied to each device, pipe the lines written by 'heyu monitor' and not
\* read yet, lastcmd the last command heyu was run with for each device,
\* acted the number of the message whose heyu run has done its work, rc
\* the exit code of that run, nremote the number of functions applied by
\* remote controls
NoBus ==
  [state   |-> [d \in Devices |-> ""],
   pipe    |-> <<>>,
   lastcmd |-> [d \in Devices |-> ""],
   acted   |-> 0,
   rc      |-> 0,
   nremote |-> 0]

Init ==
  /\ discoveryhouses \in {ParseHouses(e) : e \in HouseEnvs}
  /\ cm17 \in BOOLEAN
  /\ rcvihc = ""
  /\ mainpc = "connect"
  /\ msgpc = "idle"
  /\ cur = NoCmd
  /\ retained = <<>>
  /\ nmsgs = 0
  /\ nlines = 0
  /\ nconns = 0
  /\ ev = Event("init", "", "", "", 0, NoCmd, -1)
  /\ io = <<>>
  /\ hist = <<>>
  /\ bus = NoBus

(***************************************************************************)
(* Main program: connecting                                                *)
(***************************************************************************)
\* client.connect(broker, port) returns; client.loop_start()
ConnectOk ==
  /\ mainpc = "connect"
  /\ mainpc' = "loop"
  /\ ev' = Event("connect", "", "", "", 0, NoCmd, -1)
  /\ io' = <<>>
  /\ UNCHANGED <<discoveryhouses, cm17, rcvihc, msgpc, cur, retained,
                 nmsgs, nlines, nconns, hist, bus>>

\* ConnectFail without the exit(1) of the except clause
ConnectFailGoesOn ==
  /\ mainpc = "connect"
  /\ mainpc' = "loop"
  /\ ev' = Event("connect", "", "", "", 1, NoCmd, -1)
  /\ io' = <<>>
  /\ UNCHANGED <<discoveryhouses, cm17, rcvihc, msgpc, cur, retained,
                 nmsgs, nlines, nconns, hist, bus>>

\* client.connect(broker, port) raises: exit(1)
ConnectFail ==
  /\ mainpc = "connect"
  /\ mainpc' = "exited"
  /\ ev' = Event("connect", "", "", "", 1, NoCmd, -1)
  /\ io' = <<>>
  /\ UNCHANGED <<discoveryhouses, cm17, rcvihc, msgpc, cur, retained,
                 nmsgs, nlines, nconns, hist, bus>>

(***************************************************************************)
(* Discovery                                                               *)
(***************************************************************************)
Quoted(s) == "\"" \o s \o "\""

\* json.dumps of the dict config, keys in insertion order
json_dumps(config) ==
  "{" \o Quoted("name") \o ": " \o Quoted(config.name) \o ", "
      \o Quoted("state_topic") \o ": " \o Quoted(config.state_topic) \o ", "
      \o Quoted("command_topic") \o ": " \o Quoted(config.command_topic) \o ", "
      \o Quoted("unique_id") \o ": " \o Quoted(config.unique_id) \o "}"

\* DiscoveryConfig with house.upper() in the state topic
DiscoveryConfigUpper(house, unit) ==
  [name          |-> "X10 Module " \o Upper(house) \o Str(unit),
   state_topic   |-> stattopic \o "/" \o Upper(house) \o Str(unit),
   command_topic |-> cmdtopic \o "/" \o Lower(house) \o Str(unit),
   unique_id     |-> "x10mqtt_x10_" \o Lower(house) \o Str(unit)]

DiscoveryConfig(house, unit) ==
  [name          |-> "X10 Module " \o Upper(house) \o Str(unit),
   state_topic   |-> stattopic \o "/" \o Lower(house) \o Str(unit),
   command_topic |-> cmdtopic \o "/" \o Lower(house) \o Str(unit),
   unique_id     |-> "x10mqtt_x10_" \o Lower(house) \o Str(unit)]

DiscoveryTopic(house, unit) ==
  discoverytopic \o "/switch/x10mqtt/x10_" \o Lower(house) \o Str(unit) \o "/config"

\* the publish of ha_discovery_announce(client, house, unit)
ha_discovery_announce(house, unit) ==
  Publish(DiscoveryTopic(house, unit), json_dumps(DiscoveryConfig(house, unit)))

\* AnnounceHouse with range(1, 16) for range(1, 17)
AnnounceHouseShort(house) ==
  [u \in 1..(MaxUnit - 1) |-> ha_discovery_announce(house, u)]

\* for unit in range(1, 17): ha_discovery_announce(client, house, unit)
AnnounceHouse(house) == [u \in 1..MaxUnit |-> ha_discovery_announce(house, u)]

\* for house in discoveryhouses: ...
RECURSIVE AnnounceAll(_)
AnnounceAll(houses) ==
  IF houses = <<>> THEN <<>>
  ELSE AnnounceHouse(Head(houses)) \o AnnounceAll(Tail(houses))

\* AnnounceAll, computed once for each configuration of the model
Announcements == [h \in {ParseHouses(e) : e \in HouseEnvs} |-> AnnounceAll(h)]

(***************************************************************************)
(* Loop thread: callbacks                                                  *)
(***************************************************************************)
\* OnConnectCalls with the number of the connection put in each descriptor
OnConnectCallsStamped(rc, houses) ==
  <<Subscribe(cmdtopic \o "/+")>>
  \o [i \in 1..Len(Announcements[houses]) |->
       Publish(Announcements[houses][i].topic,
               Announcements[houses][i].payload \o Str(nconns))]

\* OnConnectCalls with the subscription after the announcement
OnConnectCallsSubscribeLast(rc, houses) ==
  Announcements[houses] \o <<Subscribe(cmdtopic \o "/+")>>

\* the calls of on_connect, in order: a non-zero rc is printed, and the
\* callback goes on to subscribe and to announce.
OnConnectCalls(rc, houses) == <<Subscribe(cmdtopic \o "/+")>> \o Announcements[houses]

\* on_connect(client, userdata, flags, rc)
on_connect(rc) ==
  /\ mainpc = "loop"
  /\ msgpc = "idle"
  /\ nconns < MaxConns
  /\ nconns' = nconns + 1
  /\ io' = OnConnectCalls(rc, discoveryhouses)
  /\ retained' = Retain(retained, io')
  /\ ev' = Event("on_connect", "", "", "", rc, NoCmd, -1)
  /\ UNCHANGED <<discoveryhouses, cm17, rcvihc, mainpc, msgpc, cur, nmsgs,
                 nlines, hist, bus>>

\* HeyuCmd comparing cmd itself, not cmd.lower(), with "on" and "off"
HeyuCmdNoLower(cmd, firecracker) ==
  IF firecracker /\ cmd = "on" THEN "fon"
  ELSE IF firecracker /\ cmd = "off" THEN "foff"
  ELSE cmd

\* heyucmd of execute: as-is for the CM11, fon/foff for the CM17
HeyuCmd(cmd, firecracker) ==
  IF firecracker /\ Lower(cmd) = "on" THEN "fon"
  ELSE IF firecracker /\ Lower(cmd) = "off" THEN "foff"
  ELSE cmd

\* the argument list of subprocess.run in execute
HeyuArgs(cmd, housecode, firecracker) ==
  <<"heyu", Lower(HeyuCmd(cmd, firecracker)), Lower(housecode)>>

\* the test of on_message: command in ["ON", "OFF"] and hcpattern.match(hc)
Validated(command, hc) == command \in {"ON", "OFF"} /\ hcpattern(hc)

\* command, hc and the test of on_message for a message
Decode(topic, payload) ==
  LET command == Upper(payload)
      hc      == Upper(LastSegment(topic))
  IN  [command |-> command, hc |-> hc, ok |-> Validated(command, hc)]

\* Decode, computed once for each message of the model
Decoded == [t \in WideTopics, p \in WidePayloads |-> Decode(t, p)]

\* Message starting heyu without waiting for it (Popen for run): the state
\* is published at once and the loop thread takes the next message
MessageNoWait(topic, payload) ==
  LET m == Decoded[topic, payload]
  IN  /\ mainpc = "loop"
      /\ msgpc = "idle"
      /\ nmsgs < MaxMsgs
      /\ nmsgs' = nmsgs + 1
      /\ io' = IF m.ok
               THEN <<Run(HeyuArgs(m.command, m.hc, cm17)),
                      Publish(stattopic \o "/" \o Lower(m.hc), Upper(m.command))>>
               ELSE <<>>
      /\ retained' = Retain(retained, io')
      /\ ev' = Event("on_message", topic, payload, "", 0, cur, -1)
      /\ UNCHANGED <<discoveryhouses, cm17, rcvihc, mainpc, msgpc, cur, nlines,
                     nconns, bus>>

\* on_message(client, userdata, message), up to the call of subprocess.run
\* in execute, which blocks the loop thread until heyu exits; but for the
\* history
Message(topic, payload) ==
  LET m == Decoded[topic, payload]
  IN  /\ mainpc = "loop"
      /\ msgpc = "idle"
      /\ nmsgs < MaxMsgs
      /\ nmsgs' = nmsgs + 1
      /\ IF m.ok
         THEN /\ io' = <<Run(HeyuArgs(m.command, m.hc, cm17))>>
              /\ cur' = [topic |-> topic, payload |-> payload,
                          cmd |-> m.command, housecode |-> m.hc]
              /\ msgpc' = "run"
         ELSE /\ io' = <<>>
              /\ UNCHANGED <<cur, msgpc>>
      /\ ev' = Event("on_message", topic, payload, "", 0, cur', -1)
      /\ UNCHANGED <<discoveryhouses, cm17, rcvihc, mainpc, retained, nlines,
                     nconns, bus>>

on_message(topic, payload) == Message(topic, payload) /\ UNCHANGED hist

\* StatePublish with heyucmd for cmd
StatePublishAction(cmd, housecode) ==
  Publish(stattopic \o "/" \o Lower(housecode), Upper(HeyuCmd(cmd, cm17)))

\* the publish of execute: stattopic/housecode.lower(), cmd.upper(), retained
StatePublish(cmd, housecode) ==
  Publish(stattopic \o "/" \o Lower(housecode), Upper(cmd))

\* ExecuteCalls publishing only when heyu succeeded
ExecuteCallsOnSuccess(cmd, housecode, returncode) ==
  IF returncode = 0 THEN <<StatePublish(cmd, housecode)>> ELSE <<>>

\* the calls of execute after subprocess.run returned returncode: a non-zero
\* one is printed, and the state is published
ExecuteCalls(cmd, housecode, returncode) == <<StatePublish(cmd, housecode)>>

\* return (result.returncode)
ExecuteResult(returncode) == returncode

\* execute_return emptying rcvihc after its publish
execute_returnSharedSlot(rc) ==
  /\ mainpc = "loop"
  /\ msgpc = "run"
  /\ io' = ExecuteCalls(cur.cmd, cur.housecode, rc)
  /\ retained' = Retain(retained, io')
  /\ msgpc' = "idle"
  /\ cur' = NoCmd
  /\ rcvihc' = ""
  /\ ev' = Event("execute_return", cur.topic, cur.payload, "", rc, cur,
               ExecuteResult(rc))
  /\ UNCHANGED <<discoveryhouses, cm17, mainpc, nmsgs, nlines, nconns,
                 hist, bus>>

\* execute, from the return of subprocess.run with exit code rc to its end;
\* but for the history
Returned(rc) ==
  /\ mainpc = "loop"
  /\ msgpc = "run"
  /\ io' = ExecuteCalls(cur.cmd, cur.housecode, rc)
  /\ retained' = Retain(retained, io')
  /\ msgpc' = "idle"
  /\ cur' = NoCmd
  /\ ev' = Event("execute_return", cur.topic, cur.payload, "", rc, cur,
               ExecuteResult(rc))
  /\ UNCHANGED <<discoveryhouses, cm17, rcvihc, mainpc, nmsgs, nlines, nconns,
                 bus>>

execute_return(rc) == Returned(rc) /\ UNCHANGED hist

(***************************************************************************)
(* Main thread: the monitor loop                                           *)
(***************************************************************************)
\* rcviaddr keeping an address that is already pending
rcviaddrKeepFirst(housecode) == IF rcvihc # "" THEN rcvihc ELSE housecode

\* rcviaddr(housecode): the value of rcvihc after the call
rcviaddr(housecode) == housecode

\* rcvifunc without the test of rcvihc
rcvifuncUnguarded(hc, func) ==
  [calls  |-> <<Publish(stattopic \o "/" \o Lower(hc), Upper(func))>>,
   rcvihc |-> ""]

\* rcvifunc without the reset of rcvihc
rcvifuncNoClear(hc, func) ==
  IF hc # ""
  THEN [calls  |-> <<Publish(stattopic \o "/" \o Lower(hc), Upper(func))>>,
        rcvihc |-> hc]
  ELSE [calls |-> <<>>, rcvihc |-> hc]

\* rcvifunc publishing func, not func.upper()
rcvifuncAsIs(hc, func) ==
  IF hc # ""
  THEN [calls  |-> <<Publish(stattopic \o "/" \o Lower(hc), func)>>,
        rcvihc |-> ""]
  ELSE [calls |-> <<>>, rcvihc |-> hc]

\* rcvifunc(client, func) with rcvihc = hc: its calls, and rcvihc after it
rcvifunc(hc, func) ==
  IF hc # ""
  THEN [calls  |-> <<Publish(stattopic \o "/" \o Lower(hc), Upper(func))>>,
        rcvihc |-> ""]
  ELSE [calls |-> <<>>, rcvihc |-> hc]

\* both searches of the loop body, computed once for each line of the model
Searched ==
  [l \in Lines \cup BusLines |-> [addr |-> rercviaddr(l), func |-> rercvifunc(l)]]

\* LoopBody with 'elif funcsearch' for 'if funcsearch'
LoopBodyElif(line, hc) ==
  LET addrsearch == Searched[line].addr
      funcsearch == Searched[line].func
  IN  IF addrsearch.hit THEN [calls |-> <<>>, rcvihc |-> rcviaddr(addrsearch.group)]
      ELSE IF funcsearch.hit THEN rcvifunc(hc, funcsearch.group)
      ELSE [calls |-> <<>>, rcvihc |-> hc]

\* LoopBody with the test of funcsearch before the test of addrsearch
LoopBodyFuncFirst(line, hc) ==
  LET addrsearch == Searched[line].addr
      funcsearch == Searched[line].func
      f          == IF funcsearch.hit THEN rcvifunc(hc, funcsearch.group)
                    ELSE [calls |-> <<>>, rcvihc |-> hc]
  IN  [calls  |-> f.calls,
       rcvihc |-> IF addrsearch.hit THEN rcviaddr(addrsearch.group) ELSE f.rcvihc]

\* the body of 'for line in monitor()' with rcvihc = hc
LoopBody(line, hc) ==
  LET addrsearch == Searched[line].addr
      funcsearch == Searched[line].func
      hc1        == IF addrsearch.hit THEN rcviaddr(addrsearch.group) ELSE hc
  IN  IF funcsearch.hit THEN rcvifunc(hc1, funcsearch.group)
      ELSE [calls |-> <<>>, rcvihc |-> hc1]

\* one iteration of the monitor loop, but for the history and for where
\* the line comes from
ReadLine(line) ==
  /\ mainpc = "loop"
  /\ nlines' = nlines + 1
  /\ rcvihc' = LoopBody(line, rcvihc).rcvihc
  /\ io' = LoopBody(line, rcvihc).calls
  /\ retained' = Retain(retained, io')
  /\ ev' = Event("line", "", "", line, 0, NoCmd, -1)
  /\ UNCHANGED <<discoveryhouses, cm17, mainpc, msgpc, cur, nmsgs, nconns>>

\* MonitorLine waiting until the loop thread is out of execute
MonitorLineWhenIdle(line) ==
  /\ msgpc = "idle"
  /\ nlines < MaxLines
  /\ ReadLine(line)
  /\ UNCHANGED <<hist, bus>>

MonitorLine(line) ==
  /\ nlines < MaxLines
  /\ ReadLine(line)
  /\ UNCHANGED <<hist, bus>>

\* monitor() after the last line: popen.wait() gives return_code; a non-zero
\* one raises (the raise statement names cmd, which is not defined, so the
\* exception is a NameError); with zero the generator ends, the for loop ends
\* and the script runs off its end.  The loop thread is a daemon thread: it
\* ends with the main thread.
MonitorExit(rc) ==
  /\ mainpc = "loop"
  /\ mainpc' = IF rc # 0 THEN "raised" ELSE "done"
  /\ ev' = Event("monitor_exit", "", "", "", rc, NoCmd, -1)
  /\ io' = <<>>
  /\ UNCHANGED <<discoveryhouses, cm17, rcvihc, msgpc, cur, retained,
                 nmsgs, nlines, nconns, hist, bus>>

Next ==
  \/ ConnectOk
  \/ ConnectFail
  \/ \E rc \in ConnectCodes : on_connect(rc)
  \/ \E t \in Topics, p \in Payloads : on_message(t, p)
  \/ \E rc \in ExitCodes : execute_return(rc)
  \/ \E l \in Lines : MonitorLine(l)
  \/ \E rc \in ExitCodes : MonitorExit(rc)

Spec == Init /\ [][Next]_vars

(***************************************************************************)
(* The monitor loop alone, with the history of its lines                   *)
(***************************************************************************)
MonitorLineH(line) ==
  /\ nlines < MaxHist
  /\ ReadLine(line)
  /\ hist' = Append(hist, [line |-> line, calls |-> io'])
  /\ UNCHANGED bus

NextMonitor ==
  \/ ConnectOk
  \/ ConnectFail
  \/ \E l \in Lines : MonitorLineH(l)
  \/ \E rc \in ExitCodes : MonitorExit(rc)

SpecMonitor == Init /\ [][NextMonitor]_vars

(***************************************************************************)
(* The loop thread alone, default configuration but for the hardware mode, *)
(* with more messages                                                      *)
(***************************************************************************)
InitCommands == Init /\ discoveryhouses = <<>>

NextCommands ==
  \/ ConnectOk
  \/ ConnectFail
  \/ \E rc \in ConnectCodes : on_connect(rc)
  \/ \E t \in WideTopics, p \in WidePayloads : on_message(t, p)
  \/ \E rc \in ExitCodes : execute_return(rc)

SpecCommands == InitCommands /\ [][NextCommands]_vars

(***************************************************************************)
(* Both threads, with the history of the monitor lines: each line is kept  *)
(* with the calls it made and with how many callbacks had run by then      *)
(***************************************************************************)
MonitorLineF(line) ==
  /\ nlines < MaxLines
  /\ ReadLine(line)
  /\ hist' = Append(hist, [line |-> line, calls |-> io',
                            done |-> nmsgs + nconns])
  /\ UNCHANGED bus

InitFlows == Init /\ discoveryhouses = ParseHouses("a,B") /\ ~cm17

\* a command for the device of each address line, and a message to drop
FlowTopics == {"x10/cmd/A1", "x10/cmd/b12"}

FlowPayloads == {"ON", "toggle"}

\* the lines that only one of the patterns matches
FlowLines == {l \in Lines : Searched[l].addr.hit # Searched[l].func.hit}

NextFlows ==
  \/ ConnectOk
  \/ ConnectFail
  \/ \E rc \in ConnectCodes : on_connect(rc)
  \/ \E t \in FlowTopics, p \in FlowPayloads : on_message(t, p)
  \/ \E rc \in ExitCodes : execute_return(rc)
  \/ \E l \in FlowLines : MonitorLineF(l)
  \/ \E rc \in ExitCodes : MonitorExit(rc)

SpecFlows == InitFlows /\ [][NextFlows]_vars

\* Both threads, every heyu run that on_message started returning in the end
\* and the loop thread then going on
SpecLive ==
  /\ InitFlows
  /\ [][Next]_vars
  /\ WF_vars(\E rc \in ExitCodes : execute_return(rc))

(***************************************************************************)
(* The loop thread alone, with the history of its callbacks: each message  *)
(* and each return of execute is kept with the calls it made               *)
(***************************************************************************)
on_messageS(topic, payload) ==
  /\ Message(topic, payload)
  /\ hist' = Append(hist, [op |-> "on_message", topic |-> topic,
                            payload |-> payload, calls |-> io'])

execute_returnS(rc) ==
  /\ Returned(rc)
  /\ hist' = Append(hist, [op |-> "execute_return", topic |-> cur.topic,
                            payload |-> cur.payload, calls |-> io'])

NextSerial ==
  \/ ConnectOk
  \/ ConnectFail
  \/ \E rc \in ConnectCodes : on_connect(rc)
  \/ \E t \in Topics, p \in Payloads : on_messageS(t, p)
  \/ \E rc \in ExitCodes : execute_returnS(rc)

SpecSerial == InitCommands /\ [][NextSerial]_vars

(***************************************************************************)
(* Both threads with the bus: heyu applies the function of a command to    *)
(* the bus unless it fails, remote controls apply functions too, and       *)
(* 'heyu monitor' reports every function applied, in the order of the bus, *)
(* as an address line followed by its function line                        *)
(***************************************************************************)
\* the heyu run that on_message started does its work: with exit code 0 it
\* applies the function to the device, and 'heyu monitor' reports it; with
\* another exit code it applies nothing
HeyuActs(rc) ==
  LET d == cur.housecode
  IN  /\ mainpc = "loop"
      /\ msgpc = "run"
      /\ bus.acted # nmsgs
      /\ bus' = [bus EXCEPT
                   !.acted   = nmsgs,
                   !.rc      = rc,
                   !.lastcmd = [@ EXCEPT ![d] = cur.cmd],
                   !.state   = IF rc = 0 THEN [@ EXCEPT ![d] = cur.cmd] ELSE @,
                   !.pipe    = IF rc = 0 THEN @ \o ReportOf("sndc", d, cur.cmd)
                               ELSE @]
      /\ UNCHANGED <<discoveryhouses, cm17, rcvihc, mainpc, msgpc, cur,
                     retained, nmsgs, nlines, nconns, ev, io, hist>>

\* subprocess.run returns when heyu has done its work, with its exit code
HeyuReturns ==
  /\ bus.acted = nmsgs
  /\ execute_return(bus.rc)

\* a remote control applies function C to device d, and 'heyu monitor'
\* reports it
Remote(d, C) ==
  /\ mainpc = "loop"
  /\ bus.nremote < MaxRemote
  /\ bus' = [bus EXCEPT
               !.nremote = @ + 1,
               !.state   = [@ EXCEPT ![d] = C],
               !.pipe    = @ \o ReportOf("rcvi", d, C)]
  /\ UNCHANGED <<discoveryhouses, cm17, rcvihc, mainpc, msgpc, cur,
                 retained, nmsgs, nlines, nconns, ev, io, hist>>

\* the monitor loop reads the next line that 'heyu monitor' has written
MonitorRead ==
  /\ bus.pipe # <<>>
  /\ ReadLine(Head(bus.pipe))
  /\ bus' = [bus EXCEPT !.pipe = Tail(@)]
  /\ UNCHANGED hist

InitBus == Init /\ discoveryhouses = <<>> /\ ~cm17

NextBus ==
  \/ ConnectOk
  \/ ConnectFail
  \/ \E t \in BusTopics, p \in BusPayloads : on_message(t, p)
  \/ \E rc \in ExitCodes : HeyuActs(rc)
  \/ HeyuReturns
  \/ \E d \in Devices, C \in {"ON", "OFF"} : Remote(d, C)
  \/ MonitorRead

SpecBus == InitBus /\ [][NextBus]_vars

(***************************************************************************)
(* Properties                                                              *)
(***************************************************************************)
\* H of a topic cmd-prefix/H ("" when the topic has another form)
TopicHouse(t) ==
  IF At(t, 1, cmdtopic \o "/") THEN SubSeq(t, Len(cmdtopic) + 2, Len(t)) ELSE ""

\* the action of each command in each hardware mode
ModeAction(firecracker, C) ==
  CASE ~firecracker /\ C = "ON"  -> "on"
    [] ~firecracker /\ C = "OFF" -> "off"
    [] firecracker  /\ C = "ON"  -> "fon"
    [] firecracker  /\ C = "OFF" -> "foff"

\* C1: a message with topic cmd-prefix/H, H in [A-P][0-9]+, and payload C in
\* {ON, OFF} makes on_message run heyu once, with the action of C in the
\* hardware mode and the housecode H in lower case, and publish nothing until
\* heyu returns; the return then publishes once, retained, C to
\* stat-prefix/lowercase(H), and runs nothing.
C1_CommandRunsAndPublishesOnce ==
  LET H == TopicHouse(ev.topic)
      C == ev.payload
  IN  (HouseCodeGrammar(H) /\ C \in {"ON", "OFF"}) =>
        /\ ev.op = "on_message" =>
             /\ io = <<Run(<<"heyu", ModeAction(cm17, C), Lower(H)>>)>>
             /\ msgpc = "run"
        /\ ev.op = "execute_return" =>
             /\ io = <<Publish(stattopic \o "/" \o Lower(H), C)>>
             /\ io[1].retain
             /\ msgpc = "idle"

C1_Witness ==
  /\ ev.op = "execute_return"
  /\ ev.topic = "x10/cmd/P16"
  /\ ev.payload = "OFF"
  /\ cm17
  /\ io = <<Publish("x10/stat/p16", "OFF")>>

\* C2: a message whose topic's last segment, upper-cased, is not in
\* [A-P][0-9]+, or whose payload, upper-cased, is neither ON nor OFF, makes
\* on_message call nothing and leaves the loop thread idle.
C2_InvalidMessageDropped ==
  (/\ ev.op = "on_message"
   /\ ~(/\ HouseCodeGrammar(Upper(LastSegment(ev.topic)))
        /\ Upper(ev.payload) \in {"ON", "OFF"}))
  => (io = <<>> /\ msgpc = "idle" /\ cur = NoCmd)

\* C7: when the heyu run of a validated command (H, C) returns, with any exit
\* code, execute publishes once, retained, C to stat-prefix/lowercase(H), and
\* returns the exit code.
C7_PublishWhateverExitCode ==
  ev.op = "execute_return" =>
    /\ io = <<Publish(stattopic \o "/" \o Lower(ev.housecode), ev.cmd)>>
    /\ io[1].retain
    /\ ev.cmd \in {"ON", "OFF"}
    /\ ev.ret = ev.rc

C7_Witness ==
  /\ ev.op = "execute_return"
  /\ ev.rc = 1
  /\ ev.ret = 1
  /\ ev.housecode = "B12"
  /\ io = <<Publish("x10/stat/b12", "ON")>>

\* what the two patterns find in a monitor line
AddrHit(l) == l \in Lines /\ Searched[l].addr.hit
FuncHit(l) == l \in Lines /\ Searched[l].func.hit
AddrOf(l) == Searched[l].addr.group
FuncOf(l) == Searched[l].func.group

\* an address line, a function line: a line only one of the patterns matches
AddressLine(l) == AddrHit(l) /\ ~FuncHit(l)
FunctionLine(l) == FuncHit(l) /\ ~AddrHit(l)

\* the command of a function
CommandOf(func) == IF func = "On" THEN "ON" ELSE "OFF"

\* stat-prefix/lowercase(H)
StateTopic(H) == stattopic \o "/" \o Lower(H)

\* the publishes of a step that go to a topic under stat-prefix
StatePublishes(calls) ==
  {i \in 1..Len(calls) :
     calls[i].call = "publish" /\ At(calls[i].topic, 1, stattopic \o "/")}

C4_FunctionLinePairsOnce ==
  [][
      /\ (ev'.op = "line" /\ FunctionLine(ev'.line)) =>
          IF rcvihc # ""
          THEN /\ io' = <<Publish(StateTopic(rcvihc), CommandOf(FuncOf(ev'.line)))>>
               /\ io'[1].retain
               /\ rcvihc' = ""
          ELSE /\ io' = <<>>
               /\ UNCHANGED <<rcvihc, retained, mainpc, msgpc, cur>>
      /\ \A i \in 1..(Len(hist') - 2) :
           (/\ AddressLine(hist'[i].line)
            /\ FunctionLine(hist'[i + 1].line)
            /\ FunctionLine(hist'[i + 2].line))
           => /\ hist'[i].calls = <<>>
              /\ hist'[i + 1].calls =
                   <<Publish(StateTopic(AddrOf(hist'[i].line)),
                             CommandOf(FuncOf(hist'[i + 1].line)))>>
              /\ hist'[i + 2].calls = <<>>
    ]_vars

C4_Witness ==
  /\ Len(hist) = 3
  /\ hist[1].line = "rcvi addr unit 1 : hu A1 (lamp)\n"
  /\ hist[2].line = "rcvi func On : hc A\n"
  /\ hist[2].calls = <<Publish("x10/stat/a1", "ON")>>
  /\ hist[3].line = "sndc func Off : hc B\n"
  /\ hist[3].calls = <<>>
  /\ rcvihc = ""

\* C5: when two or more address lines in a row are followed by a function
\* line, the address lines publish nothing and the function line publishes
\* one event, for the address of the last of them; every event published
\* later comes with an address line read after that function line.
C5_LastAddressWins ==
  \A i, k \in 1..Len(hist) :
    (/\ i + 2 <= k
     /\ \A m \in i..(k - 1) : AddressLine(hist[m].line)
     /\ FunctionLine(hist[k].line))
    => /\ \A m \in i..(k - 1) : hist[m].calls = <<>>
       /\ hist[k].calls =
            <<Publish(StateTopic(AddrOf(hist[k - 1].line)),
                      CommandOf(FuncOf(hist[k].line)))>>
       /\ \A n \in (k + 1)..Len(hist) :
            hist[n].calls # <<>> =>
              \E m \in (k + 1)..n : AddrHit(hist[m].line)

C5_Witness ==
  /\ Len(hist) = 3
  /\ hist[1].line = "rcvi addr unit 1 : hu A1 (lamp)\n"
  /\ hist[2].line = "sndc addr unit 12 : hu B12\n"
  /\ hist[3].line = "sndc func Off : hc B\n"
  /\ hist[3].calls = <<Publish("x10/stat/b12", "OFF")>>
  /\ rcvihc = ""

\* C6 as stated: a line that matches both patterns only sets the pending
\* address and publishes nothing.
C6_AddressTakesPriority ==
  (ev.op = "line" /\ AddrHit(ev.line) /\ FuncHit(ev.line)) =>
    (io = <<>> /\ rcvihc = AddrOf(ev.line))

\* C6, amended: a line is handled by every pattern that matches it, the
\* address pattern first.  A line that only the address pattern matches sets
\* the pending address and publishes nothing; a line that both match
\* publishes one event, its own address with its own function, and leaves no
\* address pending.
C6_BothPatternsHandled ==
  /\ (ev.op = "line" /\ AddressLine(ev.line)) =>
       (io = <<>> /\ rcvihc = AddrOf(ev.line))
  /\ (ev.op = "line" /\ AddrHit(ev.line) /\ FuncHit(ev.line)) =>
       /\ io = <<Publish(StateTopic(AddrOf(ev.line)), CommandOf(FuncOf(ev.line)))>>
       /\ rcvihc = ""

C6_Witness ==
  /\ Len(hist) = 2
  /\ hist[1].line = "rcvi addr unit 1 : hu A1 (lamp)\n"
  /\ hist[2].line = "rcvi addr unit 12 : hu B12 (rcvi func On :)\n"
  /\ hist[2].calls = <<Publish("x10/stat/b12", "ON")>>
  /\ rcvihc = ""

\* C8: when the monitor subprocess has terminated, the main thread has ended
\* with an exception.
C8_MonitorExitIsFatal ==
  ev.op = "monitor_exit" => mainpc = "raised"

\* the value of a string member of a JSON object written by json.dumps
JsonGet(text, key) ==
  LET open  == Quoted(key) \o ": \""
      from  == (CHOOSE i \in 1..Len(text) : At(text, i, open)) + Len(open)
      upto  == CHOOSE j \in from..Len(text) :
                 /\ Ch(text, j) = "\""
                 /\ \A k \in from..(j - 1) : Ch(text, k) # "\""
  IN  SubSeq(text, from, upto - 1)

\* the unique_id of every descriptor the configurations of the model announce
UniqueId ==
  [p \in UNION {{Announcements[h][i].payload : i \in 1..Len(Announcements[h])} :
                  h \in DOMAIN Announcements}
     |-> JsonGet(p, "unique_id")]

EndsWith(s, w) == Len(w) <= Len(s) /\ SubSeq(s, Len(s) - Len(w) + 1, Len(s)) = w

IsPublish(c) == c.call = "publish"

Distinct(seq) == \A i, j \in 1..Len(seq) : i # j => seq[i] # seq[j]

\* C9: one on_connect with n pairwise distinct configured letters publishes
\* 16*n messages, all retained and under the discovery prefix, with pairwise
\* distinct topics and pairwise distinct unique_id, and for each letter and
\* each unit 1..16 exactly one of them has a unique_id (and a topic) naming
\* that letter and unit.
C9_DiscoveryAnnouncesEachUnit ==
  (ev.op = "on_connect" /\ Distinct(discoveryhouses)) =>
    LET P == SelectSeq(io, IsPublish)
        n == Len(discoveryhouses)
    IN  /\ Len(P) = 16 * n
        /\ \A i \in 1..Len(P) :
             P[i].retain /\ At(P[i].topic, 1, discoverytopic \o "/")
        /\ \A i, j \in 1..Len(P) :
             i # j => /\ P[i].topic # P[j].topic
                      /\ UniqueId[P[i].payload] # UniqueId[P[j].payload]
        /\ \A k \in 1..n, u \in 1..16 :
             LET name == Lower(discoveryhouses[k]) \o Str(u)
             IN  Cardinality({i \in 1..Len(P) :
                    /\ EndsWith(UniqueId[P[i].payload], "_" \o name)
                    /\ EndsWith(P[i].topic, "_" \o name \o "/config")}) = 1

C9_Witness ==
  /\ ev.op = "on_connect"
  /\ discoveryhouses = <<"A", "B">>
  /\ Len(SelectSeq(io, IsPublish)) = 32
  /\ UniqueId[io[33].payload] = "x10mqtt_x10_b16"

\* the retained messages under the discovery prefix
DiscoveryRetained(store) ==
  [t \in {t \in DOMAIN store : At(t, 1, discoverytopic \o "/")} |-> store[t]]

\* C10: once on_connect has run, no step changes the retained discovery
\* messages, whether it handles a command, a monitor line or a reconnect;
\* a reconnect publishes only messages that are retained already, with the
\* same payload.
C10_DiscoveryIdempotent ==
  [][nconns >= 1 =>
       /\ retained' # retained =>
            DiscoveryRetained(retained') = DiscoveryRetained(retained)
       /\ ev'.op = "on_connect" =>
            \A i \in 1..Len(io') :
              IsPublish(io'[i]) =>
                /\ io'[i].topic \in DOMAIN retained
                /\ retained[io'[i].topic] = io'[i].payload
    ]_vars

C10_Witness ==
  /\ ev.op = "on_connect"
  /\ nconns = 2
  /\ discoveryhouses = <<"A", "B">>
  /\ "x10/stat/a1" \in DOMAIN retained
  /\ "x10/stat/b12" \in DOMAIN retained
  /\ Cardinality(DOMAIN DiscoveryRetained(retained)) = 32

\* C11: an on_connect callback with result code 0 subscribes once to
\* cmd-prefix/+ and announces once (16 descriptors for each configured
\* letter); an on_connect callback with a non-zero result code calls nothing.
C11_ConnectTriggersOnSuccessOnly ==
  ev.op = "on_connect" =>
    IF ev.rc = 0
    THEN /\ Cardinality({i \in 1..Len(io) : io[i].call = "subscribe"}) = 1
         /\ io[1] = Subscribe(cmdtopic \o "/+")
         /\ Len(SelectSeq(io, IsPublish)) = 16 * Len(discoveryhouses)
    ELSE io = <<>>

C13_PendingOnlyByMonitor ==
  [][
      /\ ev'.op \in {"on_connect", "on_message", "execute_return"} =>
           rcvihc' = rcvihc
      /\ \A i \in 1..(Len(hist') - 1) :
           (AddressLine(hist'[i].line) /\ FunctionLine(hist'[i + 1].line)) =>
             hist'[i + 1].calls =
               <<Publish(StateTopic(AddrOf(hist'[i].line)),
                         CommandOf(FuncOf(hist'[i + 1].line)))>>
    ]_vars

\* between the two lines: a reconnect, and a command for the same device
\* that was handled and published
C13_Witness ==
  /\ Len(hist) = 2
  /\ hist[1].line = "rcvi addr unit 1 : hu A1 (lamp)\n"
  /\ hist[1].done = 0
  /\ hist[2].line = "sndc func Off : hc B\n"
  /\ ev.op = "line" /\ nmsgs = 1 /\ nconns = 1 /\ msgpc = "idle"
  /\ hist[2].calls = <<Publish("x10/stat/a1", "OFF")>>
  /\ "x10/stat/a1" \in DOMAIN retained
  /\ Cardinality(DOMAIN DiscoveryRetained(retained)) = 32

\* C14: the first call of every on_connect is the subscription to
\* cmd-prefix/+, and all its other calls are the discovery publishes, in the
\* order of the configuration: the 16 units of the first configured letter,
\* ascending, then those of the second letter, and so on.
C14_SubscribeThenOrderedDiscovery ==
  ev.op = "on_connect" =>
    /\ Len(io) = 1 + 16 * Len(discoveryhouses)
    /\ io[1] = Subscribe(cmdtopic \o "/+")
    /\ \A i \in 2..Len(io) : IsPublish(io[i])
    /\ \A k \in 1..Len(discoveryhouses), u \in 1..16 :
         LET c    == io[1 + 16 * (k - 1) + u]
             name == Lower(discoveryhouses[k]) \o Str(u)
         IN  /\ c.topic = discoverytopic \o "/switch/x10mqtt/x10_" \o name \o "/config"
             /\ UniqueId[c.payload] = "x10mqtt_x10_" \o name

C14_Witness ==
  /\ ev.op = "on_connect"
  /\ discoveryhouses = <<"A", "B">>
  /\ io[1].call = "subscribe"
  /\ io[2].topic = "homeassistant/switch/x10mqtt/x10_a1/config"
  /\ io[17].topic = "homeassistant/switch/x10mqtt/x10_a16/config"
  /\ io[18].topic = "homeassistant/switch/x10mqtt/x10_b1/config"
  /\ io[33].topic = "homeassistant/switch/x10mqtt/x10_b16/config"

\* C15: whenever on_message runs heyu, for a message with payload C (upper-
\* cased, ON or OFF) and last topic segment H, its arguments are the action
\* of C in the hardware mode (on, off for the CM11; fon, foff for the CM17)
\* and H in lower case; and the state then published is C itself, ON or OFF,
\* in both modes.
C15_ActionByModeOnly ==
  LET C == Upper(ev.payload)
      H == LastSegment(ev.topic)
  IN  /\ (ev.op = "on_message" /\ io # <<>>) =>
           /\ C \in {"ON", "OFF"}
           /\ io = <<Run(<<"heyu", ModeAction(cm17, C), Lower(H)>>)>>
      /\ ev.op = "execute_return" =>
           /\ C \in {"ON", "OFF"}
           /\ io = <<Publish(stattopic \o "/" \o Lower(H), C)>>

C15_Witness ==
  /\ ev.op = "execute_return"
  /\ cm17
  /\ ev.topic = "x10/cmd/b12"
  /\ ev.payload = "on"
  /\ io = <<Publish("x10/stat/b12", "ON")>>

\* the two-state automaton: its states, and the step it takes on a line that
\* is given to it as an address line (asAddr) or as a function line (asFunc)
WaitAddress == [state |-> "WAIT_ADDRESS", pending |-> "", events |-> <<>>]

AutomatonStep(a, asAddr, asFunc, addr, func) ==
  IF asAddr
  THEN [state |-> "HAVE_ADDRESS", pending |-> addr, events |-> a.events]
  ELSE IF asFunc /\ a.state = "HAVE_ADDRESS"
  THEN [state   |-> "WAIT_ADDRESS", pending |-> "",
        events  |-> Append(a.events, <<a.pending, CommandOf(func)>>)]
  ELSE a

\* the automaton run on the lines of h, address detection taking priority
\* on a line that both patterns match
RECURSIVE AutomatonPriority(_)
AutomatonPriority(h) ==
  IF h = <<>> THEN WaitAddress
  ELSE LET l == h[Len(h)].line
       IN  AutomatonStep(AutomatonPriority(SubSeq(h, 1, Len(h) - 1)),
                         AddrHit(l), FuncHit(l), AddrOf(l), FuncOf(l))

\* the automaton run on the lines of h, a line that both patterns match
\* being given to it as an address line and then as a function line
RECURSIVE AutomatonBoth(_)
AutomatonBoth(h) ==
  IF h = <<>> THEN WaitAddress
  ELSE LET l  == h[Len(h)].line
           a  == AutomatonBoth(SubSeq(h, 1, Len(h) - 1))
           a1 == IF AddrHit(l)
                 THEN AutomatonStep(a, TRUE, FALSE, AddrOf(l), "") ELSE a
       IN  IF FuncHit(l) THEN AutomatonStep(a1, FALSE, TRUE, "", FuncOf(l))
           ELSE a1

\* the publishes of the lines of h, in order
RECURSIVE Published(_)
Published(h) ==
  IF h = <<>> THEN <<>>
  ELSE Published(SubSeq(h, 1, Len(h) - 1)) \o h[Len(h)].calls

\* the publish of each event of a sequence of events
EventPublishes(events) ==
  [i \in 1..Len(events) |-> Publish(StateTopic(events[i][1]), events[i][2])]

\* rcvihc and the publishes of the lines read are the pending address and
\* the events of automaton state a
Refines(a) ==
  /\ Published(hist) = EventPublishes(a.events)
  /\ rcvihc = a.pending
  /\ (a.state = "HAVE_ADDRESS") = (rcvihc # "")

\* C16 as stated: on every sequence of monitor lines, the monitor loop
\* publishes the events of the two-state automaton in which address
\* detection takes priority, in the same order.
C16_RefinesPriorityAutomaton ==
  Refines(AutomatonPriority(hist))

\* C16, amended: on every sequence of monitor lines, the monitor loop
\* publishes, in the same order, the events of the two-state automaton to
\* which a line that both patterns match is given as an address line and
\* then as a function line, and rcvihc is its pending address; there are
\* never more events than lines the address pattern matched.
C16_RefinesAutomaton ==
  /\ Refines(AutomatonBoth(hist))
  /\ Len(Published(hist)) <=
       Cardinality({i \in 1..Len(hist) : AddrHit(hist[i].line)})

C16_Witness ==
  /\ Len(hist) = 4
  /\ hist[1].line = "rcvi addr unit 1 : hu A1 (lamp)\n"
  /\ hist[2].line = "rcvi addr unit 12 : hu B12 (rcvi func On :)\n"
  /\ hist[3].line = "sndc func Off : hc B\n"
  /\ hist[4].line = "rcvi addr unit 1 : hu A1 (lamp)\n"
  /\ Published(hist) = <<Publish("x10/stat/b12", "ON")>>
  /\ AutomatonBoth(hist).events = <<<<"B12", "ON">>>>
  /\ rcvihc = "A1"

\* a message of the history that passes the test of on_message
IsCommand(e) == e.op = "on_message" /\ Decoded[e.topic, e.payload].ok

\* the state publish of a command
CommandPublish(e) ==
  Publish(StateTopic(Decoded[e.topic, e.payload].hc),
          Decoded[e.topic, e.payload].command)

\* C17: in the history of the loop thread, a command only starts heyu, and
\* its state is published by the very next step, the return of that heyu
\* run; every return follows directly the command it belongs to, so that no
\* message is handled between the start of a heyu run and its publish; and
\* the state publishes are those of the commands, in the order the commands
\* were received, all but the one of a command whose heyu run has not
\* returned.
C17_CommandsAreSerial ==
  LET R == SelectSeq(hist, IsCommand)
      P == SelectSeq(Published(hist), IsPublish)
  IN  /\ \A i \in 1..Len(hist) :
           /\ IsCommand(hist[i]) =>
                /\ Len(hist[i].calls) = 1
                /\ hist[i].calls[1].call = "run"
                /\ i < Len(hist) =>
                     /\ hist[i + 1].op = "execute_return"
                     /\ hist[i + 1].calls = <<CommandPublish(hist[i])>>
           /\ (hist[i].op = "on_message" /\ ~IsCommand(hist[i])) =>
                hist[i].calls = <<>>
           /\ hist[i].op = "execute_return" =>
                /\ i > 1
                /\ IsCommand(hist[i - 1])
                /\ hist[i].topic = hist[i - 1].topic
                /\ hist[i].payload = hist[i - 1].payload
      /\ Len(P) = Len(R) - (IF msgpc = "run" THEN 1 ELSE 0)
      /\ \A k \in 1..Len(P) : P[k] = CommandPublish(R[k])
      /\ (msgpc = "run") = (hist # <<>> /\ IsCommand(hist[Len(hist)]))

C17_Witness ==
  /\ Len(hist) = 4
  /\ hist[1].op = "on_message"
  /\ hist[1].topic = "x10/cmd/b12" /\ hist[1].payload = "ON"
  /\ hist[2].op = "execute_return"
  /\ hist[3].op = "on_message"
  /\ hist[3].topic = "x10/cmd/A1" /\ hist[3].payload = "Off"
  /\ hist[4].op = "execute_return"
  /\ SelectSeq(Published(hist), IsPublish) =
       <<Publish("x10/stat/b12", "ON"), Publish("x10/stat/a1", "OFF")>>

\* the event a monitor line gives when it is read with hc pending
LineEvent(line, hc) ==
  IF FuncHit(line) /\ (AddrHit(line) \/ hc # "")
  THEN <<Publish(StateTopic(IF AddrHit(line) THEN AddrOf(line) ELSE hc),
                 CommandOf(FuncOf(line)))>>
  ELSE <<>>

\* while the loop thread is inside a heyu run, the monitor loop can read any
\* line, and a line it reads publishes its event and leaves the loop thread
\* where it is
MonitorNotBlocked ==
  /\ []((mainpc = "loop" /\ msgpc = "run" /\ nlines < MaxLines) =>
         \A l \in Lines : ENABLED MonitorLine(l))
  /\ [][(msgpc = "run" /\ ev'.op = "line") =>
          /\ io' = LineEvent(ev'.line, rcvihc)
          /\ retained' = Retain(retained, io')
          /\ msgpc' = "run"
          /\ cur' = cur]_vars

\* C18 as stated: the monitor loop is not blocked by a heyu run, and, heyu
\* runs returning and the loop thread being scheduled, every command that
\* passed the test is followed in the end by its state publish.
C18_IndependentProgress ==
  /\ MonitorNotBlocked
  /\ \A t \in Topics, p \in Payloads :
       (msgpc = "run" /\ cur.topic = t /\ cur.payload = p) ~>
         (/\ ev.op = "execute_return" /\ ev.topic = t /\ ev.payload = p
          /\ io = <<Publish(StateTopic(LastSegment(t)), Upper(p))>>)

\* C18, amended: the monitor loop is not blocked by a heyu run, and, heyu
\* runs returning and the loop thread being scheduled, every command that
\* passed the test is followed in the end by its state publish, or by the
\* end of the process when 'heyu monitor' ends before heyu has returned.
C18_ProgressUntilMonitorEnds ==
  /\ MonitorNotBlocked
  /\ \A t \in Topics, p \in Payloads :
       (msgpc = "run" /\ cur.topic = t /\ cur.payload = p) ~>
         \/ /\ ev.op = "execute_return" /\ ev.topic = t /\ ev.payload = p
            /\ io = <<Publish(StateTopic(LastSegment(t)), Upper(p))>>
         \/ /\ ev.op = "monitor_exit"
            /\ mainpc \in {"done", "raised"}

\* two lines read, and the event of the pair published, while heyu runs
C18_Witness ==
  /\ msgpc = "run"
  /\ cur.housecode = "B12"
  /\ nmsgs = 1
  /\ ev.op = "line"
  /\ ev.line = "rcvi func On : hc A\n"
  /\ nlines = 2
  /\ io = <<Publish("x10/stat/a1", "ON")>>
  /\ retained["x10/stat/a1"] = "ON"
  /\ "x10/stat/b12" \notin DOMAIN retained

\* whether a subscription to filter, which ends with the one-level wildcard
\* "/+", gets the messages of topic
TopicMatches(filter, topic) ==
  LET prefix == SubSeq(filter, 1, Len(filter) - 1)
  IN  /\ EndsWith(filter, "/+")
      /\ At(topic, 1, prefix)
      /\ \A i \in (Len(prefix) + 1)..Len(topic) : Ch(topic, i) # "/"

\* every descriptor the configurations of the model announce
AnnouncedPayloads ==
  UNION {{Announcements[h][i].payload : i \in 1..Len(Announcements[h])} :
           h \in DOMAIN Announcements}

\* for each descriptor: its topics, whether the subscription of on_connect
\* gets the messages of its command topic, what on_message makes of ON and
\* of OFF sent to its command topic, and where execute and rcvifunc then
\* publish the state
Routing ==
  [p \in AnnouncedPayloads |->
     LET ct  == JsonGet(p, "command_topic")
         on  == Decode(ct, "ON")
         off == Decode(ct, "OFF")
     IN  [command_topic |-> ct,
          state_topic   |-> JsonGet(p, "state_topic"),
          subscribed    |-> TopicMatches(cmdtopic \o "/+", ct),
          on            |-> on,
          off           |-> off,
          heyu          |-> HeyuArgs(on.command, on.hc, FALSE)[3],
          execute       |-> {StatePublish(on.command, on.hc).topic,
                             StatePublish(off.command, off.hc).topic},
          monitor       |-> {rcvifunc(on.hc, "On").calls[1].topic,
                             rcvifunc(off.hc, "Off").calls[1].topic}]]

\* the descriptors that are retained
Descriptors(store) ==
  {Routing[store[t]] : t \in DOMAIN DiscoveryRetained(store)}

\* C19: for the descriptor that on_connect publishes for unit u of the k-th
\* configured letter: its command topic is under the subscription of that
\* on_connect; ON and OFF sent to it pass the test of on_message, as commands
\* ON and OFF for the housecode letter-unit, which heyu is run with; and its
\* state topic is the one topic execute publishes to for that housecode, and
\* the one topic rcvifunc publishes to when that housecode is pending.  When
\* a command sent to the command topic of a retained descriptor returns, and
\* when a monitor line publishes for the housecode of a retained descriptor,
\* the publish goes to the state topic of that descriptor.
C19_DiscoveryMatchesRouting ==
  [][
      /\ ev'.op = "on_connect" =>
           /\ io'[1] = Subscribe(cmdtopic \o "/+")
           /\ \A k \in 1..Len(discoveryhouses), u \in 1..16 :
                LET r  == Routing[io'[1 + 16 * (k - 1) + u].payload]
                    hc == discoveryhouses[k] \o Str(u)
                IN  /\ r.subscribed
                    /\ r.on = [command |-> "ON", hc |-> hc, ok |-> TRUE]
                    /\ r.off = [command |-> "OFF", hc |-> hc, ok |-> TRUE]
                    /\ r.heyu = Lower(hc)
                    /\ r.execute = {r.state_topic}
                    /\ r.monitor = {r.state_topic}
      /\ ev'.op = "execute_return" =>
           \A d \in Descriptors(retained) :
             d.command_topic = ev'.topic => io'[1].topic = d.state_topic
      /\ (ev'.op = "line" /\ io' # <<>>) =>
           \A d \in Descriptors(retained) :
             d.on.hc = (IF AddrHit(ev'.line) THEN AddrOf(ev'.line) ELSE rcvihc)
               => io'[1].topic = d.state_topic
    ]_vars

\* the state of a command sent to the announced command topic of B12 has
\* been published to the announced state topic of B12
C19_Witness ==
  /\ ev.op = "execute_return"
  /\ ev.topic = "x10/cmd/b12"
  /\ nlines = 2
  /\ \E d \in Descriptors(retained) :
       /\ d.command_topic = ev.topic
       /\ d.state_topic = io[1].topic
       /\ d.state_topic = "x10/stat/b12"
       /\ d.on.hc = "B12"

\* every command received has been handled to its end, and every line that
\* 'heyu monitor' has written has been read
Quiescent == mainpc = "loop" /\ msgpc = "idle" /\ bus.pipe = <<>>

\* the retained state of device d ("" when none was published)
RetainedState(d) ==
  IF StateTopic(d) \in DOMAIN retained THEN retained[StateTopic(d)] ELSE ""

\* C20 as stated: when every command and every monitor line has been
\* processed, the retained state of each device is the last function applied
\* to it on the bus.
C20_RetainedEqualsBus ==
  Quiescent => \A d \in Devices : RetainedState(d) = bus.state[d]

\* C20, amended: when every command and every monitor line has been
\* processed, the retained state of each device is the last function applied
\* to it on the bus or the last command heyu was run with for it; it is the
\* last function applied on the bus when no command was received for the
\* device, and a device to which a function was applied has a retained
\* state.
C20_RetainedIsBusOrLastCommand ==
  Quiescent =>
    \A d \in Devices :
      /\ RetainedState(d) \in {bus.state[d], bus.lastcmd[d]}
      /\ bus.lastcmd[d] = "" => RetainedState(d) = bus.state[d]
      /\ bus.state[d] # "" => RetainedState(d) # ""

\* heyu turned A1 on; before it returned, a remote control turned A1 off
\* and the monitor loop published both; then execute published ON
C20_Witness ==
  /\ Quiescent
  /\ ev.op = "execute_return"
  /\ ev.rc = 0
  /\ nmsgs = 1
  /\ nlines = 4
  /\ bus.nremote = 1
  /\ bus.state["A1"] = "OFF"
  /\ bus.lastcmd["A1"] = "ON"
  /\ RetainedState("A1") = "ON"

====
